---- MODULE Spec2Model ----
(***************************************************************************)
(* Model of powerspec.py: main (validation, segmentation, averaging,       *)
(* frequency truncation, normalization) and geometric_rebinning.           *)
(*                                                                         *)
(* Numbers.  Floating-point quantities are carried exactly:                *)
(*   - a rational is a record [num, den];                                  *)
(*   - a spectrum value is a record [k, a, b]: k = "fin" stands for        *)
(*     (a + b*sqrt(2)) times the common scale of the array it lives in,    *)
(*     k = "inf" / "nan" are the IEEE results of a division by a zero      *)
(*     numpy float.                                                        *)
(***************************************************************************)
EXTENDS Integers, Sequences, FiniteSets, TLC

VARIABLES
    pc,                  \* position in main / geometric_rebinning, or the exception raised
    rms_power_avg,       \* fractional rms power (sequence of values; index k is [k+1])
    rms_err_power,       \* error on the rms power
    freq,                \* frequencies (integer numerators over a common denominator)
    rebin_const,         \* rational [p, q]
    length_of_list,
    rebinned_rms_power, rebinned_freq, err_rebinned_power,
    real_index, int_index, current_m, prev_m,
    groups,              \* history: the index set range(prev_m, current_m) of each emitted bin
    iters,               \* history: number of while-loop iterations of geometric_rebinning
    num_seconds,         \* main's arguments (with rebin_const)
    fits_data,           \* the input: [rate |-> sequence of rates, dt |-> rational [p, q]]
    reads,               \* number of times the input source has been opened and read
    n_bins,
    power_avg,           \* values (a + b*sqrt2) / power_den
    power_den,
    mean_rate_whole,     \* rational [num, den]
    i, j, num_segments,
    rate,                \* the rates of the last segment extracted
    freq_den,            \* common denominator of freq
    norm,                \* Leahy spectrum and the common scales of the normalized arrays
    written,             \* rows handed to output(): <<>> until output() is called
    segs                 \* history: the window [lo, hi) of every segment accumulated

rebinVars == <<rms_power_avg, rms_err_power, freq, rebin_const, length_of_list,
               rebinned_rms_power, rebinned_freq, err_rebinned_power,
               real_index, int_index, current_m, prev_m, groups, iters>>

mainVars == <<num_seconds, fits_data, reads, n_bins, power_avg, power_den,
              mean_rate_whole, i, j, num_segments, rate, freq_den, norm, written, segs>>

vars == <<pc, rebinVars, mainVars>>

-----------------------------------------------------------------------------
(* Bounds of the model *)
MaxL == 9

-----------------------------------------------------------------------------
(* Exact arithmetic on spectrum values *)
Fin(a, b) == [k |-> "fin", a |-> a, b |-> b]
Inf == [k |-> "inf", a |-> 0, b |-> 0]
NaN == [k |-> "nan", a |-> 0, b |-> 0]

Abs(x) == IF x < 0 THEN -x ELSE x

\* x + y
AddF(x, y) ==
    IF x.k = "nan" \/ y.k = "nan" THEN NaN
    ELSE IF x.k = "inf" \/ y.k = "inf" THEN Inf
    ELSE Fin(x.a + y.a, x.b + y.b)

\* x ** 2, with (a + b*sqrt2)^2 = (a^2 + 2 b^2) + (2ab)*sqrt2
SqF(x) ==
    IF x.k = "nan" THEN NaN
    ELSE IF x.k = "inf" THEN Inf
    ELSE Fin(x.a * x.a + 2 * x.b * x.b, 2 * x.a * x.b)

SetMax(S) == CHOOSE m \in S : \A x \in S : x <= m

-----------------------------------------------------------------------------
(* geometric_rebinning *)

\* round() of Python 2: halves are rounded away from zero (x > 0 here)
RoundBad(x) == (2 * x.num - x.den) \div (2 * x.den)
Round(x) == (2 * x.num + x.den) \div (2 * x.den)

\* range(prev_m, current_m) of the inner for-loop
KRangeBad(p, c) == (p + 1) .. c
KRange(p, c) == p .. (c - 1)

\* prev_m = current_m, line 137
StepPrevMBad(c) == c + 1
StepPrevM(c) == c

\* the loop condition of line 94
RebinLoopGuardBad(m, len) == m <= len
RebinLoopGuard(m, len) == m < len

InBounds(arr, k) == k >= 0 /\ k < Len(arr)

\* sum of rms_power_avg[k] over the bin (bin_power starts at 0.0)
RECURSIVE SumPower(_, _)
SumPower(arr, ks) ==
    IF ks = {} THEN Fin(0, 0)
    ELSE LET m == SetMax(ks) IN AddF(SumPower(arr, ks \ {m}), arr[m + 1])

\* sum of rms_err_power[k] ** 2 over the bin (err_bin_power2 starts at 0.0)
RECURSIVE SumErr2(_, _)
SumErr2(arr, ks) ==
    IF ks = {} THEN Fin(0, 0)
    ELSE LET m == SetMax(ks) IN AddF(SumErr2(arr, ks \ {m}), SqF(arr[m + 1]))

\* bin_power: the sum divided by float(bin_range), or the single point itself
BinPower(ks, bin_range) ==
    IF bin_range = 1 THEN [sum |-> rms_power_avg[prev_m + 1], n |-> 1]
    ELSE [sum |-> SumPower(rms_power_avg, ks), n |-> bin_range]

\* bin_freq = ((freq[current_m] - freq[prev_m]) / bin_range) + freq[prev_m]
BinFreq(bin_range) ==
    IF bin_range = 1 THEN [num |-> freq[prev_m + 1], den |-> 1]
    ELSE [num |-> (freq[current_m + 1] - freq[prev_m + 1]) + freq[prev_m + 1] * bin_range,
          den |-> bin_range]

\* math.sqrt(err_bin_power2) / float(bin_range), the radicand kept exact
BinErr(ks, bin_range) == [sumsq |-> SumErr2(rms_err_power, ks), n |-> bin_range]

\* the state of the function's locals after lines 78-88
RebinLocalsInit ==
    /\ rebinned_rms_power' = <<>>
    /\ rebinned_freq' = <<>>
    /\ err_rebinned_power' = <<>>
    /\ real_index' = [num |-> 1, den |-> 1]
    /\ int_index' = 1
    /\ current_m' = 1
    /\ prev_m' = 0
    /\ groups' = <<>>
    /\ iters' = 0

Raise(e) == pc' = e /\ UNCHANGED <<rebinVars, mainVars>>

\* one iteration of the while-loop, lines 94-140
RebinIter ==
    /\ pc = "rebin_loop"
    /\ RebinLoopGuard(current_m, length_of_list)
    /\ LET ks == KRange(prev_m, current_m)
           bin_range == Abs(current_m - prev_m)
           next_real == [num |-> real_index.num * rebin_const.p,
                         den |-> real_index.den * rebin_const.q]
       IN IF \E k \in ks : ~InBounds(rms_power_avg, k) \/ ~InBounds(rms_err_power, k)
            THEN Raise("IndexError")
          ELSE IF bin_range = 0
            THEN Raise("ZeroDivisionError")
          ELSE IF ~InBounds(freq, current_m) \/ ~InBounds(freq, prev_m)
            THEN Raise("IndexError")
          ELSE /\ rebinned_rms_power' = Append(rebinned_rms_power, BinPower(ks, bin_range))
               /\ rebinned_freq' = Append(rebinned_freq, BinFreq(bin_range))
               /\ err_rebinned_power' = Append(err_rebinned_power, BinErr(ks, bin_range))
               /\ prev_m' = StepPrevM(current_m)
               /\ real_index' = next_real
               /\ int_index' = Round(next_real)
               /\ current_m' = current_m + Round(next_real)
               /\ groups' = Append(groups, ks)
               /\ iters' = iters + 1
               /\ pc' = "rebin_loop"
               /\ UNCHANGED <<rms_power_avg, rms_err_power, freq, rebin_const, length_of_list>>
               /\ UNCHANGED mainVars

\* loop exit and return, lines 94 and 148
RebinReturn ==
    /\ pc = "rebin_loop"
    /\ ~RebinLoopGuard(current_m, length_of_list)
    /\ pc' = "rebin_returned"
    /\ UNCHANGED <<rebinVars, mainVars>>

-----------------------------------------------------------------------------
(* geometric_rebinning called on its own, over bounded inputs *)

\* rebin constants >= 1.0 (exact binary fractions, so the float product is exact)
RebinConsts == {[p |-> 1, q |-> 1], [p |-> 5, q |-> 4], [p |-> 3, q |-> 2],
                [p |-> 2, q |-> 1], [p |-> 3, q |-> 1]}

RmsShapes == {"ramp", "down", "flat"}
ErrShapes == {"ramp", "flat"}

ShapeVal(shape, x) ==
    CASE shape = "ramp" -> x + 1
      [] shape = "down" -> 2 - x
      [] shape = "flat" -> 3

\* main is not running: its variables stay at fixed values
MainIdle ==
    /\ num_seconds = 0
    /\ fits_data = [rate |-> <<>>, dt |-> [p |-> 1, q |-> 1]]
    /\ reads = 0
    /\ n_bins = 0
    /\ power_avg = <<>>
    /\ power_den = 1
    /\ mean_rate_whole = [num |-> 0, den |-> 1]
    /\ i = 0
    /\ j = 0
    /\ num_segments = 0
    /\ rate = <<>>
    /\ freq_den = 1
    /\ norm = <<>>
    /\ written = <<>>
    /\ segs = <<>>

InitRebin ==
    /\ pc = "rebin_loop"
    /\ length_of_list \in 0..MaxL
    /\ \E s \in RmsShapes :
         rms_power_avg = [x \in 1..length_of_list |-> Fin(ShapeVal(s, x - 1), 0)]
    /\ \E s \in ErrShapes :
         rms_err_power = [x \in 1..length_of_list |-> Fin(ShapeVal(s, x - 1), 0)]
    /\ \E fs \in {1, 2} : freq = [x \in 1..length_of_list |-> (x - 1) * fs]
    /\ rebin_const \in RebinConsts
    /\ rebinned_rms_power = <<>>
    /\ rebinned_freq = <<>>
    /\ err_rebinned_power = <<>>
    /\ real_index = [num |-> 1, den |-> 1]
    /\ int_index = 1
    /\ current_m = 1
    /\ prev_m = 0
    /\ groups = <<>>
    /\ iters = 0
    /\ MainIdle

NextRebin == RebinIter \/ RebinReturn

SpecRebin == InitRebin /\ [][NextRebin]_vars

SpecRebinFair == InitRebin /\ [][NextRebin]_vars /\ WF_vars(NextRebin)

-----------------------------------------------------------------------------
(* main *)

\* Bounds of the model
MaxSeconds == 4
MaxN == 17

\* the while-loop of power_of_two, lines 41-42; x is a whole number, so
\* x < 2147483648 is written x <= 2147483647
RECURSIVE DoubleUp(_, _)
DoubleUp(x, n) == IF x < n /\ x <= 2147483647 THEN DoubleUp(2 * x, n) ELSE x

\* power_of_two, lines 34-43 (num is an int: argparse type=int)
power_of_twoBad(num) == IF num = 1 THEN TRUE ELSE num <= DoubleUp(2, num)
power_of_two(num) == IF num = 1 THEN TRUE ELSE num = DoubleUp(2, num)

\* int(1.0 / dt) for dt = p/q > 0
IntInv(dt) == dt.q \div dt.p

RECURSIVE SumSeq(_)
SumSeq(s) == IF s = <<>> THEN 0 ELSE s[1] + SumSeq(Tail(s))

\* rate - mean_rate_segment, times len(rate): n*x - sum(rate)
RateSubMean(r) == [x \in 1..Len(r) |-> Len(r) * r[x] - SumSeq(r)]

\* circular autocorrelation of y at lag d
AutoCorr(y, d) ==
    SumSeq([x \in 1..Len(y) |-> y[x] * y[((x - 1 + d) % Len(y)) + 1]])

\* 2*cos(2*pi*m/8) as a + b*sqrt2
Cos2(m) ==
    CASE m = 0 -> Fin(2, 0)
      [] m \in {1, 7} -> Fin(0, 1)
      [] m \in {2, 6} -> Fin(0, 0)
      [] m \in {3, 5} -> Fin(0, -1)
      [] m = 4 -> Fin(-2, 0)

\* 2 * n^2 * |fft(rate_sub_mean)[k]|^2 = sum_d AutoCorr(y, d) * 2cos(2 pi k d / n),
\* for segment lengths n that divide 8
RECURSIVE PowerTerms(_, _, _)
PowerTerms(y, k, d) ==
    IF d < 0 THEN Fin(0, 0)
    ELSE LET c == Cos2((k * d * (8 \div Len(y))) % 8)
             r == AutoCorr(y, d)
         IN AddF(PowerTerms(y, k, d - 1), Fin(r * c.a, r * c.b))

PowerSegment(r) ==
    LET y == RateSubMean(r) IN [x \in 1..Len(r) |-> PowerTerms(y, x - 1, Len(r) - 1)]

\* np.fft.fftfreq(n), numerators over n: 0, 1, ..., (n-1)//2, -(n//2), ..., -1
SampleFreqBad(n) == [x \in 1..n |-> IF x - 1 <= n \div 2 THEN x - 1 ELSE x - 1 - n]
SampleFreq(n) == [x \in 1..n |-> IF x - 1 <= (n - 1) \div 2 THEN x - 1 ELSE x - 1 - n]

\* the loop condition of line 325
SegLoopGuard(jj, len) == jj < len

\* freq.index(max(freq)), 0-based
MaxIndex(f) ==
    (CHOOSE m \in 1..Len(f) :
        /\ \A x \in 1..Len(f) : f[x] <= f[m]
        /\ \A x \in 1..(m - 1) : f[x] < f[m]) - 1

IsZero(v) == v.a = 0 /\ v.b = 0

RaiseMain(e) ==
    /\ pc' = e
    /\ UNCHANGED <<rebinVars, num_seconds, fits_data, n_bins, power_avg, power_den,
                   mean_rate_whole, i, j, num_segments, rate, freq_den, norm, written, segs>>

\* the three asserts, lines 277-279
Validate ==
    /\ pc = "validate"
    /\ IF ~(num_seconds > 0) THEN Raise("AssertionError")
       ELSE IF ~(rebin_const.p >= rebin_const.q) THEN Raise("AssertionError")
       ELSE IF ~power_of_two(num_seconds) THEN Raise("AssertionError")
       ELSE pc' = "read" /\ UNCHANGED <<rebinVars, mainVars>>

\* opening and reading the input, dt, n_bins and the accumulators, lines 284-315
ReadData ==
    /\ pc = "read"
    /\ reads' = reads + 1
    /\ IF Len(fits_data.rate) < 2
         THEN RaiseMain("IndexError")
         ELSE LET nb == num_seconds * IntInv(fits_data.dt) IN
              /\ n_bins' = nb
              /\ power_avg' = [x \in 1..nb |-> Fin(0, 0)]
              /\ power_den' = IF nb = 0 THEN 1 ELSE 2 * nb * nb
              /\ mean_rate_whole' = [num |-> 0, den |-> IF nb = 0 THEN 1 ELSE nb]
              /\ i' = 0
              /\ j' = nb
              /\ num_segments' = 0
              /\ pc' = "seg_loop"
              /\ UNCHANGED <<rebinVars, num_seconds, fits_data, rate, freq_den, norm,
                             written, segs>>

\* one iteration of the segment loop, lines 325-368
SegIter ==
    /\ pc = "seg_loop"
    /\ SegLoopGuard(j, Len(fits_data.rate))
    /\ IF n_bins = 0
         THEN \* fftpack.fft of an empty segment
              Raise("ValueError")
         ELSE LET seg == SubSeq(fits_data.rate, i + 1, j)
                  power_segment == PowerSegment(seg)
              IN /\ rate' = seg
                 /\ power_avg' = [x \in 1..Len(power_avg) |->
                                     AddF(power_segment[x], power_avg[x])]
                 /\ mean_rate_whole' = [mean_rate_whole EXCEPT !.num = @ + SumSeq(seg)]
                 /\ i' = j
                 /\ j' = j + n_bins
                 /\ num_segments' = num_segments + 1
                 /\ segs' = Append(segs, [lo |-> i, hi |-> j])
                 /\ pc' = "seg_loop"
                 /\ UNCHANGED <<rebinVars, num_seconds, fits_data, reads, n_bins, power_den,
                                freq_den, norm, written>>

\* the segment loop ends, line 325
SegLoopExit ==
    /\ pc = "seg_loop"
    /\ ~SegLoopGuard(j, Len(fits_data.rate))
    /\ pc' = "average"
    /\ UNCHANGED <<rebinVars, mainVars>>

\* division by the number of segments, lines 378-379
Average ==
    /\ pc = "average"
    /\ IF num_segments = 0
         THEN Raise("ZeroDivisionError")
         ELSE /\ power_den' = power_den * num_segments
              /\ mean_rate_whole' = [mean_rate_whole EXCEPT !.den = @ * num_segments]
              /\ pc' = "truncate"
              /\ UNCHANGED <<rebinVars, num_seconds, fits_data, reads, n_bins, power_avg,
                             i, j, num_segments, rate, freq_den, norm, written, segs>>

\* frequencies and truncation to the part up to the largest frequency, lines 383-398
Truncate ==
    /\ pc = "truncate"
    /\ LET sample_freq == SampleFreq(Len(rate))
           f == [x \in 1..Len(sample_freq) |-> sample_freq[x] * IntInv(fits_data.dt)]
           max_index == MaxIndex(f)
       IN /\ freq' = SubSeq(f, 1, max_index + 1)
          /\ freq_den' = Len(rate)
          /\ power_avg' = SubSeq(power_avg, 1, max_index + 1)
    /\ pc' = "normalize"
    /\ UNCHANGED <<rms_power_avg, rms_err_power, rebin_const, length_of_list,
                   rebinned_rms_power, rebinned_freq, err_rebinned_power,
                   real_index, int_index, current_m, prev_m, groups, iters>>
    /\ UNCHANGED <<num_seconds, fits_data, reads, n_bins, power_den, mean_rate_whole,
                   i, j, num_segments, rate, norm, written, segs>>

\* error, Leahy and fractional rms normalization, and the call of
\* geometric_rebinning, lines 401-431 and 78-88.  With x = P / power_den,
\* dt = p/q and mean_rate_whole = mn/md:
\*   leahy   = P * (2 p^2 md) / (power_den q^2 num_seconds mn)
\*   rms     = (P * 2 p^2 md^2 - 2 md mn power_den q^2 num_seconds)
\*               / (power_den q^2 num_seconds mn^2)
\*   rms_err = P * (2 p^2 md^2) / (power_den q^2 num_seconds mn^2 sqrt(num_segments * L))
\* A zero mean_rate_whole is a numpy float: the divisions give inf or nan.
Normalize ==
    /\ pc = "normalize"
    /\ LET mn == mean_rate_whole.num
           md == mean_rate_whole.den
           p == fits_data.dt.p
           q == fits_data.dt.q
           L == Len(power_avg)
           K == 2 * p * p * md * md
           C == 2 * md * mn * power_den * q * q * num_seconds
           D == power_den * q * q * num_seconds
           NonFinite(v) == IF IsZero(v) THEN NaN ELSE Inf
       IN /\ norm' = [err_power |-> [vals |-> power_avg, den |-> power_den,
                                     rad |-> num_segments * L],
                      leahy_power_avg |-> [x \in 1..L |->
                          IF mn = 0 THEN NonFinite(power_avg[x]) ELSE power_avg[x]],
                      leahy_scale |-> [num |-> 2 * p * p * md, den |-> D * mn],
                      rms_scale |-> [num |-> 1, den |-> D * mn * mn],
                      rms_err_scale |-> [num |-> K, den |-> D * mn * mn,
                                         rad |-> num_segments * L]]
          /\ rms_power_avg' = [x \in 1..L |->
                IF mn = 0 THEN NaN
                ELSE Fin(power_avg[x].a * K - C, power_avg[x].b * K)]
          /\ rms_err_power' = [x \in 1..L |->
                IF mn = 0 THEN NonFinite(power_avg[x]) ELSE power_avg[x]]
          /\ length_of_list' = L
    /\ RebinLocalsInit
    /\ pc' = "rebin_loop"
    /\ UNCHANGED <<freq, rebin_const>>
    /\ UNCHANGED <<num_seconds, fits_data, reads, n_bins, power_avg, power_den,
                   mean_rate_whole, i, j, num_segments, rate, freq_den, written, segs>>

\* output(), lines 432-436 and 155-248: the rows written to the two tables
Output ==
    /\ pc = "rebin_returned"
    /\ reads > 0
    /\ written' = [unbinned |-> Cardinality({x \in 1..Len(freq) : freq[x] >= 0}),
                   rebinned |-> Cardinality({x \in 1..Len(rebinned_freq) :
                                                rebinned_freq[x].num >= 0})]
    /\ pc' = "done"
    /\ UNCHANGED <<rebinVars, num_seconds, fits_data, reads, n_bins, power_avg, power_den,
                   mean_rate_whole, i, j, num_segments, rate, freq_den, norm, segs>>

\* inputs of main
RateShapes == {"zero", "one", "saw", "wave"}

RateAt(shape, x) ==
    CASE shape = "zero" -> 0
      [] shape = "one" -> 1
      [] shape = "saw" -> x % 3
      [] shape = "wave" -> IF x % 4 < 2 THEN 1 ELSE -1

DtSet == {[p |-> 1, q |-> 2], [p |-> 1, q |-> 1], [p |-> 2, q |-> 1]}

InitMain ==
    /\ pc = "validate"
    /\ num_seconds \in -1..MaxSeconds
    /\ rebin_const \in RebinConsts \cup {[p |-> 1, q |-> 2]}
    /\ \E len \in 0..MaxN, shape \in RateShapes, d \in DtSet :
         fits_data = [rate |-> [x \in 1..len |-> RateAt(shape, x - 1)], dt |-> d]
    /\ reads = 0
    /\ n_bins = 0
    /\ power_avg = <<>>
    /\ power_den = 1
    /\ mean_rate_whole = [num |-> 0, den |-> 1]
    /\ i = 0
    /\ j = 0
    /\ num_segments = 0
    /\ rate = <<>>
    /\ freq_den = 1
    /\ norm = <<>>
    /\ written = <<>>
    /\ segs = <<>>
    /\ rms_power_avg = <<>>
    /\ rms_err_power = <<>>
    /\ freq = <<>>
    /\ length_of_list = 0
    /\ rebinned_rms_power = <<>>
    /\ rebinned_freq = <<>>
    /\ err_rebinned_power = <<>>
    /\ real_index = [num |-> 1, den |-> 1]
    /\ int_index = 1
    /\ current_m = 1
    /\ prev_m = 0
    /\ groups = <<>>
    /\ iters = 0

Next ==
    \/ Validate
    \/ ReadData
    \/ SegIter
    \/ SegLoopExit
    \/ Average
    \/ Truncate
    \/ Normalize
    \/ RebinIter
    \/ RebinReturn
    \/ Output

Spec == InitMain /\ [][Next]_vars

-----------------------------------------------------------------------------
(* Properties of geometric_rebinning *)

SetMin(S) == CHOOSE m \in S : \A x \in S : m <= x

Emitted == 1..Len(groups)

\* C3 (as stated): geometric_rebinning skips the DC bin: no emitted rebinned
\* entry is computed from original index 0.
C3_SkipsDC ==
    \A g \in Emitted : 0 \notin groups[g]

\* C3 (amended): the DC bin is not skipped: whenever an entry has been emitted,
\* the first one is computed from original index 0 alone (group [0,1), power
\* rms_power_avg[0], frequency freq[0]), no later group contains index 0, and
\* for length_of_list >= 2 the returned result has such a first entry.
C3_FirstGroupIsDC ==
    /\ Len(groups) >= 1 =>
         /\ groups[1] = {0}
         /\ rebinned_rms_power[1] = [sum |-> rms_power_avg[1], n |-> 1]
         /\ rebinned_freq[1] = [num |-> freq[1], den |-> 1]
         /\ \A g \in Emitted : g > 1 => 0 \notin groups[g]
    /\ (pc = "rebin_returned" /\ length_of_list >= 2) => Len(groups) >= 1

C3_Witness ==
    /\ pc = "rebin_returned"
    /\ Len(groups) >= 2
    /\ 0 \in groups[1]

\* C4: when the loop has terminated, every original non-DC index in
\* [1, length_of_list) belongs to exactly one emitted group.
C4_NoSampleSkipped ==
    pc = "rebin_returned" =>
        \A x \in 1..(length_of_list - 1) :
            Cardinality({g \in Emitted : x \in groups[g]}) = 1

\* C5: in every loop iteration the group [prev_m, current_m) is non-empty, and
\* each emitted group is a contiguous span that starts where the previous one
\* ended (no gap, no overlap); the next group starts where the last one ended.
C5_GroupBookkeeping ==
    /\ pc = "rebin_loop" => prev_m < current_m
    /\ \A g \in Emitted :
         /\ groups[g] # {}
         /\ groups[g] = SetMin(groups[g]) .. SetMax(groups[g])
         /\ g > 1 => SetMin(groups[g]) = SetMax(groups[g - 1]) + 1
         /\ g = Len(groups) => prev_m = SetMax(groups[g]) + 1

C5_Witness ==
    /\ Len(groups) >= 3
    /\ \E g \in Emitted : Cardinality(groups[g]) >= 3

\* C9: near-identity rebinning: when every bin has bin_range = 1 (every
\* increment round(real_index) was 1), the returned spectrum has
\* length_of_list - 1 entries and its k-th entry, k = 1..length_of_list-1, is
\* (freq[k], rms_power_avg[k], rms_err_power[k]).
C9_NearIdentity ==
    ( /\ pc = "rebin_returned"
      /\ length_of_list >= 1
      /\ current_m - prev_m = 1
      /\ \A g \in Emitted : Cardinality(groups[g]) = 1 )
    =>
    ( /\ Len(rebinned_rms_power) = length_of_list - 1
      /\ Len(rebinned_freq) = length_of_list - 1
      /\ Len(err_rebinned_power) = length_of_list - 1
      /\ \A k \in 1..(length_of_list - 1) :
           /\ k <= Len(rebinned_rms_power)
           /\ rebinned_freq[k] = [num |-> freq[k + 1], den |-> 1]
           /\ rebinned_rms_power[k] = [sum |-> rms_power_avg[k + 1], n |-> 1]
           /\ err_rebinned_power[k] = [sumsq |-> SqF(rms_err_power[k + 1]), n |-> 1] )

\* C10: geometric_rebinning terminates: every iteration strictly increases
\* current_m (the increment round(real_index) is at least 1), the loop runs at
\* most length_of_list - 1 times, and the function eventually returns.
C10_Terminates ==
    /\ [][(pc = "rebin_loop" /\ pc' = "rebin_loop")
            => (int_index' >= 1 /\ current_m' > current_m)]_vars
    /\ [](iters <= IF length_of_list >= 1 THEN length_of_list - 1 ELSE 0)
    /\ <>(pc = "rebin_returned")

C10_Witness ==
    /\ pc = "rebin_returned"
    /\ length_of_list >= 4
    /\ iters = length_of_list - 1

-----------------------------------------------------------------------------
(* Properties of main *)

\* n is a power of two, stated without the code's loop
IsPowerOfTwo(n) == \E e \in 0..30 : n = 2 ^ e

\* main has truncated the spectrum (lines 395-398 have run)
Truncated == reads > 0 /\ pc \in {"normalize", "rebin_loop", "rebin_returned", "done"}

\* C1: for N samples and n_bins >= 1 the segment loop accumulates exactly
\* floor(N / n_bins) segments, the k-th being samples [k*n_bins, (k+1)*n_bins);
\* only a remainder strictly shorter than n_bins is left unprocessed.
C1_Segmentation ==
    (pc = "average" /\ n_bins >= 1) =>
        /\ num_segments = Len(fits_data.rate) \div n_bins
        /\ Len(segs) = num_segments
        /\ \A g \in 1..Len(segs) :
             segs[g] = [lo |-> (g - 1) * n_bins, hi |-> g * n_bins]
        /\ Len(fits_data.rate) - num_segments * n_bins < n_bins

\* C2 (as stated): for every even n_bins the retained frequency and averaged
\* power arrays have length n_bins/2 + 1 (DFT bins 0 .. n_bins/2, Nyquist bin
\* retained), frequencies ascending from 0.
C2_KeepsNyquist ==
    (Truncated /\ n_bins > 0 /\ n_bins % 2 = 0) =>
        /\ Len(freq) = n_bins \div 2 + 1
        /\ Len(power_avg) = n_bins \div 2 + 1
        /\ \A x \in 1..Len(freq) : freq[x] = (x - 1) * IntInv(fits_data.dt)

\* C2 (amended): for every even n_bins the retained frequency and averaged
\* power arrays have length n_bins/2: they keep DFT bins 0 .. n_bins/2 - 1
\* (the Nyquist bin, whose frequency fftfreq gives as negative, is dropped),
\* with frequencies ascending from 0.
C2_DropsNyquist ==
    (Truncated /\ n_bins > 0 /\ n_bins % 2 = 0) =>
        /\ Len(freq) = n_bins \div 2
        /\ Len(power_avg) = n_bins \div 2
        /\ freq_den = n_bins
        /\ \A x \in 1..Len(freq) : freq[x] = (x - 1) * IntInv(fits_data.dt)
        /\ freq[1] = 0
        /\ \A x \in 2..Len(freq) : freq[x - 1] < freq[x]

C2_Witness ==
    /\ pc = "normalize"
    /\ n_bins = 8
    /\ Len(freq) = 4
    /\ Len(power_avg) = 4

\* C6: when the time series yields zero full segments, the run ends in a
\* distinct insufficient-data error and never divides by num_segments.
C6_InsufficientData ==
    (reads > 0 /\ num_segments = 0 /\ pc \notin {"read", "seg_loop", "average",
                                                 "IndexError", "ValueError"})
        => pc = "InsufficientDataError"

\* C7: if the segment duration is not positive or not a power of two, or the
\* rebin constant is below 1.0, the run fails in validation, before any data is
\* read from the input source.
C7_ValidationBeforeRead ==
    (\/ num_seconds <= 0
     \/ ~IsPowerOfTwo(num_seconds)
     \/ rebin_const.p < rebin_const.q)
    => (reads = 0 /\ pc \in {"validate", "AssertionError"})

C7_Witness ==
    /\ pc = "AssertionError"
    /\ num_seconds = 3
    /\ rebin_const.p >= rebin_const.q
    /\ reads = 0
    /\ Len(fits_data.rate) >= 2

\* C8: if mean_rate_whole is 0 at normalization time, the run ends in a fatal
\* domain error: no normalized or rebinned spectrum is computed and nothing is
\* written.
C8_ZeroMeanRateIsFatal ==
    (reads > 0 /\ num_segments > 0 /\ mean_rate_whole.num = 0) =>
        /\ pc \notin {"rebin_loop", "rebin_returned", "done"}
        /\ written = <<>>

\* C11: index safety in geometric_rebinning: with length_of_list equal to the
\* length of the three lists and c >= 1, no list access is out of range: in
\* every iteration each k of range(prev_m, current_m) read from rms_power_avg
\* and rms_err_power satisfies 0 <= k < length_of_list, and the reads
\* freq[prev_m] and freq[current_m] (the latter made even when bin_range = 1)
\* are in range, so IndexError is never raised.
C11_IndexSafety ==
    /\ pc # "IndexError"
    /\ (pc = "rebin_loop" /\ RebinLoopGuard(current_m, length_of_list)) =>
         /\ \A k \in KRange(prev_m, current_m) :
              /\ 0 <= k /\ k < length_of_list
              /\ InBounds(rms_power_avg, k)
              /\ InBounds(rms_err_power, k)
         /\ InBounds(freq, prev_m)
         /\ current_m < length_of_list
         /\ InBounds(freq, current_m)
    /\ \A g \in Emitted : \A k \in groups[g] : 0 <= k /\ k < length_of_list

\* the last iteration that can run (current_m = length_of_list - 1) is about to
\* read freq[current_m] for a bin of a single point, after several bins
C11_Witness ==
    /\ pc = "rebin_loop"
    /\ Len(groups) >= 3
    /\ current_m = length_of_list - 1
    /\ current_m - prev_m = 1
    /\ Len(freq) = length_of_list

====
